---- MODULE Spec2Model ----
(***************************************************************************)
(* Export/Backup Store of the itinerary builder (src/export_service.py):   *)
(* write_to_excel_with_sync ("append") and sync_missing_entries            *)
(* ("reconcile") over two files, the workbook and its JSON backup log.     *)
(***************************************************************************)
EXTENDS Integers, Sequences, FiniteSets, TLC

VARIABLES
    backup,     \* the JSON backup file: [state, data]
    excel,      \* the workbook file on disk: [exists, rows] (rows of sheet "Data")
    lock,       \* what an external process does to the workbook file
    last,       \* the last call: operation, result, and what its loop did
    appended,   \* history: the entries recorded by append calls, in call order
    hist,       \* history: everLocked, everCorrupt, reconciles, allWritten
    mdIn,       \* text handed to the markdown cleaner
    mdOut,      \* text the markdown cleaner returned
    mdDone      \* whether the cleaner has run on mdIn

vars == <<backup, excel, lock, last, appended, hist, mdIn, mdOut, mdDone>>

----------------------------------------------------------------------------
(* Bounds                                                                  *)

MaxAppends == 2
MaxReconciles == 2
MaxTextLen == 4

----------------------------------------------------------------------------
(* Python values held by dictionaries and cells.  A text is a sequence of  *)
(* pieces: single characters, or a whole word standing for its characters. *)

None == [kind |-> "none", text |-> <<>>]
PyInt(n) == [kind |-> "int", text |-> <<ToString(n)>>]
PyStr(t) == [kind |-> "str", text |-> t]

\* str(value), as used for column 10
str(v) ==
    IF v.kind = "none" THEN PyStr(<<"None">>) ELSE PyStr(v.text)

\* dict.get(key): None when the key is missing
get(d, k) == IF k \in DOMAIN d THEN d[k] ELSE None

EXCEL_COLUMNS ==
    << "index", "days_count", "region", "deity", "yatra_specifics", "pace",
       "transport_preference", "additional_instructions",
       "specific_interests", "generated_itinerary" >>

NCols == Len(EXCEL_COLUMNS)

----------------------------------------------------------------------------
(* Markdown cleaner                                                        *)

stuff_to_remove ==
    << <<"#", "#", "#", " ">>, <<"#", "#", "#", "#">>, <<"#", "#">>, <<"#">>,
       <<" ", "-", " ">>, <<"-", " ">>, <<"-", "-", "-">>, <<"*", "*">>,
       <<"*", "*", "*">>, <<" ", " ">> >>

RECURSIVE reSubFrom(_, _, _)
\* re.sub(re.escape(tok), '', s): leftmost non-overlapping literal matches
reSubFrom(tok, s, i) ==
    IF i > Len(s) THEN <<>>
    ELSE IF i + Len(tok) - 1 <= Len(s) /\ SubSeq(s, i, i + Len(tok) - 1) = tok
         THEN reSubFrom(tok, s, i + Len(tok))
         ELSE <<s[i]>> \o reSubFrom(tok, s, i + 1)

re_sub(tok, s) == reSubFrom(tok, s, 1)

RECURSIVE removeFrom(_, _)
\* the loop over stuff_to_remove, from token number k on
removeFrom(k, data) ==
    IF k > Len(stuff_to_remove) THEN data
    ELSE removeFrom(k + 1, re_sub(stuff_to_remove[k], data))

markdown_to_text(data) == removeFrom(1, data)

----------------------------------------------------------------------------
(* Inputs: filter dictionaries and generated texts                         *)

\* a control character the workbook library refuses to store in a cell
IllegalChar == "<VT>"

FiltersVaranasi ==
    [days_count |-> PyInt(3), region |-> PyStr(<<"Varanasi">>),
     deity |-> PyStr(<<"Shiva">>)]

FiltersEmptyRegion ==
    [days_count |-> PyInt(1), region |-> PyStr(<<>>), pace |-> PyStr(<<"Fast">>),
     additional_prompt |-> PyStr(<<"x">>)]

FiltersIllegal ==
    [days_count |-> PyInt(2), region |-> PyStr(<<"K", IllegalChar>>)]

\* the calls made: a filter dictionary with the generated text
CallInputs ==
    { <<FiltersVaranasi, <<"#", "#", "#", " ", "D">> >>,
      <<FiltersEmptyRegion, <<"#", "#">> >>,
      <<FiltersIllegal, <<"#", "#", "#", " ", "D">> >> }

\* the columns at which a lock met inside the loop interrupts the row: before
\* its first cell, or at its last
LockCols == {1, NCols}

----------------------------------------------------------------------------
(* The workbook: sheet "Data" as a sequence of rows of NCols cells         *)

HeaderRow == [c \in 1..NCols |-> PyStr(<<EXCEL_COLUMNS[c]>>)]
EmptyRow == [c \in 1..NCols |-> None]

\* ws.max_row: 1 for a sheet without cells
max_row(ws) == IF Len(ws) = 0 THEN 1 ELSE Len(ws)

\* cell.value = v raises for a string with an illegal character
Storable(v) == ~(v.kind = "str" /\ \E i \in 1..Len(v.text) : v.text[i] = IllegalChar)

\* what a saved cell reads back as: an empty string is written without a
\* value and load_workbook returns None for it
SavedValue(v) == IF v.kind = "str" /\ v.text = <<>> THEN None ELSE v

SavedRow(row) == [c \in 1..NCols |-> SavedValue(row[c])]

\* wb.save(excel_path): the file holds the sheet as it reads back
wb_save(ws) == [exists |-> TRUE, rows |-> [r \in 1..Len(ws) |-> SavedRow(ws[r])]]

\* the rows of a sheet after the cells of row row_number are written
SetRow(ws, row_number, row) ==
    [r \in 1..(IF row_number > Len(ws) THEN row_number ELSE Len(ws)) |->
        IF r = row_number THEN row ELSE IF r <= Len(ws) THEN ws[r] ELSE EmptyRow]

\* the cells of a row whose writing stopped at column failCol: the columns
\* before it hold their values (failCol = NCols + 1: the whole row)
PartialRow(cells, failCol) ==
    [c \in 1..NCols |-> IF c < failCol THEN cells[c] ELSE None]

\* the first column whose value the library refuses, NCols + 1 if none
FirstBad(cells) ==
    IF \A c \in 1..NCols : Storable(cells[c]) THEN NCols + 1
    ELSE CHOOSE c \in 1..NCols :
            /\ ~Storable(cells[c])
            /\ \A d \in 1..(c - 1) : Storable(cells[d])

\* _initialize_excel under the current lock: status "ok", or "locked" when
\* PermissionError is raised; disk is the file afterwards
initialize_excel(file, lk) ==
    IF ~file.exists
    THEN IF lk # "none"
         THEN [status |-> "locked", ws |-> <<>>, disk |-> file]
         ELSE [status |-> "ok", ws |-> <<HeaderRow>>, disk |-> wb_save(<<HeaderRow>>)]
    ELSE IF lk = "exclusive"
         THEN [status |-> "locked", ws |-> <<>>, disk |-> file]
         ELSE [status |-> "ok",
               ws |-> IF Len(file.rows) = 0 THEN <<HeaderRow>>
                      ELSE IF Len(file.rows) = 1 /\ file.rows[1][1] = None
                           THEN file.rows \o <<HeaderRow>>
                           ELSE file.rows,
               disk |-> file]

----------------------------------------------------------------------------
(* JSON backup                                                             *)

\* {**filters, "generated_itinerary": output}
make_entry(filters, output) ==
    [k \in DOMAIN filters \cup {"generated_itinerary"} |->
        IF k = "generated_itinerary" THEN PyStr(output) ELSE filters[k]]

\* the entries a backup file parses to: none when absent or not valid JSON
load_backup(file) == IF file.state = "valid" THEN file.data ELSE <<>>

\* a backup writer that starts from an empty list on every call
write_json_backup_fresh(file, filters, output) ==
    [state |-> "valid", data |-> <<make_entry(filters, output)>>]

write_json_backup(file, filters, output) ==
    [state |-> "valid", data |-> Append(load_backup(file), make_entry(filters, output))]

----------------------------------------------------------------------------
(* write_to_excel_with_sync                                                *)

\* an index taken from the number of the row being written
next_index_row_number(ws) == max_row(ws) + 1

next_index(ws) == IF max_row(ws) >= 2 THEN max_row(ws) ELSE 1

\* the cells with region and deity in each other's column
append_cells_swapped(ws, filters, output) ==
    << PyInt(next_index(ws)), get(filters, "days_count"), get(filters, "deity"),
       get(filters, "region"), get(filters, "yatra_specifics"), get(filters, "pace"),
       get(filters, "transport_preference"), get(filters, "additional_instructions"),
       get(filters, "specific_interests"), str(PyStr(output)) >>

append_cells(ws, filters, output) ==
    << PyInt(next_index(ws)), get(filters, "days_count"), get(filters, "region"),
       get(filters, "deity"), get(filters, "yatra_specifics"), get(filters, "pace"),
       get(filters, "transport_preference"), get(filters, "additional_instructions"),
       get(filters, "specific_interests"), str(PyStr(output)) >>

\* a try block that reports success although the save was refused
excel_write_unsaved(file, lk, filters, output) ==
    LET init == initialize_excel(file, lk) IN
    IF init.status = "locked"
    THEN [ok |-> FALSE, why |-> "locked", disk |-> init.disk]
    ELSE [ok |-> TRUE, why |-> "written", disk |-> init.disk]

\* the try block of write_to_excel_with_sync: the returned flag and the file
excel_write(file, lk, filters, output) ==
    LET init == initialize_excel(file, lk) IN
    IF init.status = "locked"
    THEN [ok |-> FALSE, why |-> "locked", disk |-> init.disk]
    ELSE LET cells == append_cells(init.ws, filters, output)
             ws2 == SetRow(init.ws, max_row(init.ws) + 1, PartialRow(cells, NCols + 1))
         IN  IF FirstBad(cells) <= NCols
             THEN [ok |-> FALSE, why |-> "error", disk |-> init.disk]
             ELSE IF lk # "none"
                  THEN [ok |-> FALSE, why |-> "locked", disk |-> init.disk]
                  ELSE [ok |-> TRUE, why |-> "written", disk |-> wb_save(ws2)]

----------------------------------------------------------------------------
(* sync_missing_entries                                                    *)

row_tuple(entry) ==
    << get(entry, "days_count"), get(entry, "region"), get(entry, "deity"),
       get(entry, "yatra_specifics"), get(entry, "pace"),
       get(entry, "transport_preference"), get(entry, "additional_instructions"),
       get(entry, "specific_interests"), get(entry, "generated_itinerary") >>

\* existing_tuples: every row from row 2 on, without its first cell
existing_tuples(ws) ==
    { [c \in 1..(NCols - 1) |-> ws[r][c + 1]] : r \in 2..Len(ws) }

\* the values a new row gets: the index, then the tuple, column 10 through str
sync_cells(ws, tuple) ==
    [c \in 1..NCols |->
        IF c = 1 THEN PyInt(max_row(ws))
        ELSE IF c = NCols THEN str(tuple[c - 1]) ELSE tuple[c - 1]]

\* what the lock handler of the loop keeps: the entry it was processing
lock_remaining(remaining, data, i) == Append(remaining, data[i])

\* the loop's state before its first entry; matched, written and failed
\* collect the numbers of the entries that took each branch
\* (column widths and cell styles are not part of the state)
loop_start(ws) ==
    [ws |-> ws, existing |-> existing_tuples(ws), remaining |-> <<>>, added |-> 0,
     matched |-> {}, written |-> {}, failed |-> {}, lockedAt |-> 0]

RECURSIVE sync_loop(_, _, _, _, _)
\* the for loop from entry number i on; PermissionError is raised while
\* entry number lockAt is being written, at column lockCol
sync_loop(data, i, st, lockAt, lockCol) ==
    IF i > Len(data) THEN st
    ELSE
    LET tuple == row_tuple(data[i])
        cells == sync_cells(st.ws, tuple)
        bad == FirstBad(cells)
        lockHits == i = lockAt /\ lockCol <= bad
        rowAt == max_row(st.ws) + 1
    IN  IF tuple \in st.existing
        THEN sync_loop(data, i + 1, [st EXCEPT !.matched = @ \cup {i}], lockAt, lockCol)
        ELSE IF lockHits
        THEN [st EXCEPT !.ws = IF lockCol = 1 THEN @
                                ELSE SetRow(@, rowAt, PartialRow(cells, lockCol)),
                        !.remaining = lock_remaining(@, data, i),
                        !.lockedAt = i]
        ELSE IF bad <= NCols
        THEN sync_loop(data, i + 1,
                       [st EXCEPT !.ws = SetRow(@, rowAt, PartialRow(cells, bad)),
                                  !.remaining = Append(@, data[i]),
                                  !.failed = @ \cup {i}],
                       lockAt, lockCol)
        ELSE sync_loop(data, i + 1,
                       [st EXCEPT !.ws = SetRow(@, rowAt, PartialRow(cells, NCols + 1)),
                                  !.existing = @ \cup {tuple},
                                  !.added = @ + 1,
                                  !.written = @ \cup {i}],
                       lockAt, lockCol)

\* a rewrite that leaves the backup file as it was
rewrite_backup_kept(bk, remaining) == bk

\* backup_path.write_text(json.dumps(remaining_entries))
rewrite_backup(bk, remaining) == [state |-> "valid", data |-> remaining]

\* a handler of invalid JSON that leaves the file as it found it
reset_backup_skipped(bk) == bk

\* backup_path.write_text("[]") after json.JSONDecodeError
reset_backup(bk) == [state |-> "valid", data |-> <<>>]

\* whether wb.save raises PermissionError at the end of the loop
save_locked(lk, st, lockStays) == lk # "none" \/ (st.lockedAt > 0 /\ lockStays)

\* the whole call: what it returns or raises and the two files afterwards
sync_missing_entries(bk, file, lk, lockAt, lockCol, lockStays) ==
    LET quiet == [matched |-> {}, written |-> {}, failed |-> {}, lockedAt |-> 0,
                  ran |-> FALSE]
    IN
    IF bk.state = "absent"
    THEN [added |-> 0, raised |-> FALSE, backup |-> bk, disk |-> file, how |-> "absent"] @@ quiet
    ELSE IF bk.state = "corrupt"
    THEN [added |-> 0, raised |-> FALSE, backup |-> reset_backup(bk),
          disk |-> file, how |-> "corrupt"] @@ quiet
    ELSE IF bk.data = <<>>
    THEN [added |-> 0, raised |-> FALSE, backup |-> bk, disk |-> file, how |-> "empty"] @@ quiet
    ELSE
    LET init == initialize_excel(file, lk) IN
    IF init.status = "locked"
    THEN [added |-> 0, raised |-> FALSE, backup |-> bk, disk |-> init.disk,
          how |-> "locked"] @@ quiet
    ELSE
    LET st == sync_loop(bk.data, 1, loop_start(init.ws), lockAt, lockCol)
        loop == [matched |-> st.matched, written |-> st.written, failed |-> st.failed,
                 lockedAt |-> st.lockedAt, ran |-> TRUE]
    IN  IF st.added > 0 /\ save_locked(lk, st, lockStays)
        THEN [added |-> 0, raised |-> TRUE, backup |-> bk, disk |-> init.disk,
              how |-> "raised"] @@ loop
        ELSE [added |-> st.added, raised |-> FALSE,
              backup |-> rewrite_backup(bk, st.remaining),
              disk |-> IF st.added > 0 THEN wb_save(st.ws) ELSE init.disk,
              how |-> "done"] @@ loop

----------------------------------------------------------------------------
(* State machine                                                           *)

NoCall ==
    [op |-> "none", ok |-> FALSE, why |-> "none", added |-> 0, raised |-> FALSE,
     how |-> "none", preLock |-> "none",
     matched |-> {}, written |-> {}, failed |-> {}, lockedAt |-> 0, ran |-> FALSE,
     afterClean |-> FALSE]

\* the call was a reconcile that met no lock: not when opening the workbook,
\* not inside the loop, not when saving
MetNoLock(call) ==
    call.op = "reconcile" /\ call.how \notin {"locked", "raised"} /\ call.lockedAt = 0

NoHist ==
    [everLocked |-> FALSE, everCorrupt |-> FALSE, reconciles |-> 0, allWritten |-> TRUE]

Init ==
    /\ backup = [state |-> "absent", data |-> <<>>]
    /\ excel = [exists |-> FALSE, rows |-> <<>>]
    /\ lock = "none"
    /\ last = NoCall
    /\ appended = <<>>
    /\ hist = NoHist
    /\ mdIn = <<>>
    /\ mdOut = <<>>
    /\ mdDone = FALSE

\* write_to_excel_with_sync(filters, output)
AppendCall(filters, raw) ==
    /\ Len(appended) < MaxAppends
    /\ LET output == markdown_to_text(raw)
           res == excel_write(excel, lock, filters, output)
       IN  /\ mdIn' = raw
           /\ mdOut' = output
           /\ mdDone' = TRUE
           /\ backup' = write_json_backup(backup, filters, output)
           /\ excel' = res.disk
           /\ appended' = Append(appended, make_entry(filters, output))
           /\ last' = [NoCall EXCEPT !.op = "append", !.ok = res.ok, !.why = res.why,
                          !.how = "done", !.preLock = lock,
                          !.afterClean = MetNoLock(last)]
           /\ hist' = [hist EXCEPT !.allWritten = @ /\ res.ok]
    /\ UNCHANGED lock

\* sync_missing_entries()
ReconcileCall(lockAt, lockCol, lockStays) ==
    /\ hist.reconciles < MaxReconciles
    /\ lockAt = 0 => (lockCol = 1 /\ ~lockStays)
    /\ LET res == sync_missing_entries(backup, excel, lock, lockAt, lockCol, lockStays)
       IN  /\ backup' = res.backup
           /\ excel' = res.disk
           /\ last' = [NoCall EXCEPT !.op = "reconcile", !.added = res.added,
                          !.raised = res.raised, !.how = res.how, !.preLock = lock,
                          !.matched = res.matched, !.written = res.written,
                          !.failed = res.failed, !.lockedAt = res.lockedAt,
                          !.ran = res.ran,
                          !.afterClean = MetNoLock(last)]
           /\ hist' = [hist EXCEPT !.reconciles = @ + 1,
                          !.everLocked = @ \/ res.lockedAt > 0]
    /\ UNCHANGED <<lock, appended, mdIn, mdOut, mdDone>>

\* another process opens the workbook, marks it read-only, or releases it
SetLock(lk) ==
    /\ lk # lock
    /\ lock' = lk
    /\ hist' = [hist EXCEPT !.everLocked = @ \/ lk # "none"]
    /\ UNCHANGED <<backup, excel, last, appended, mdIn, mdOut, mdDone>>

\* the backup file is damaged from outside: it no longer parses as JSON
CorruptBackup ==
    /\ backup.state = "valid"
    /\ backup' = [state |-> "corrupt", data |-> <<>>]
    /\ hist' = [hist EXCEPT !.everCorrupt = TRUE]
    /\ UNCHANGED <<excel, lock, last, appended, mdIn, mdOut, mdDone>>

Next ==
    \/ \E call \in CallInputs : AppendCall(call[1], call[2])
    \/ \E lockAt \in 0..Len(load_backup(backup)), lockCol \in LockCols, lockStays \in BOOLEAN :
          ReconcileCall(lockAt, lockCol, lockStays)
    \/ \E lk \in {"none", "readonly", "exclusive"} : SetLock(lk)
    \/ CorruptBackup

Spec == Init /\ [][Next]_vars

----------------------------------------------------------------------------
(* The markdown cleaner alone, over every short text                       *)

Alphabet == {"#", "-", "*", " ", "a"}

Texts == UNION { [1..n -> Alphabet] : n \in 0..MaxTextLen }

MdInit ==
    /\ backup = [state |-> "absent", data |-> <<>>]
    /\ excel = [exists |-> FALSE, rows |-> <<>>]
    /\ lock = "none"
    /\ last = NoCall
    /\ appended = <<>>
    /\ hist = NoHist
    /\ mdIn \in Texts
    /\ mdOut = <<>>
    /\ mdDone = FALSE

Normalize ==
    /\ ~mdDone
    /\ mdOut' = markdown_to_text(mdIn)
    /\ mdDone' = TRUE
    /\ UNCHANGED <<backup, excel, lock, last, appended, hist, mdIn>>

MdNext == Normalize

MdSpec == MdInit /\ [][MdNext]_vars

----------------------------------------------------------------------------
(* Vocabulary of the properties                                            *)

\* the rows below the header
DataRows(file) ==
    IF Len(file.rows) <= 1 THEN <<>> ELSE SubSeq(file.rows, 2, Len(file.rows))

\* the step is a call of append / of reconcile
AppendStep == Len(appended') = Len(appended) + 1
ReconcileStep == hist'.reconciles = hist.reconciles + 1

\* the entry the latest append call recorded
NewEntry == appended[Len(appended)]

\* columns 2 to 10 of the row that holds an entry, as a saved sheet reads back
EntryRow(entry) ==
    [c \in 1..(NCols - 1) |->
        SavedValue(IF c = NCols - 1 THEN str(row_tuple(entry)[c]) ELSE row_tuple(entry)[c])]

RowValues(row) == [c \in 1..(NCols - 1) |-> row[c + 1]]

InSheet(entry, file) ==
    \E r \in 1..Len(DataRows(file)) : RowValues(DataRows(file)[r]) = EntryRow(entry)

InBackup(entry, file) ==
    \E i \in 1..Len(load_backup(file)) : load_backup(file)[i] = entry

HasUnstorable(entry) == \E c \in 1..(NCols - 1) : ~Storable(row_tuple(entry)[c])

----------------------------------------------------------------------------
(* C1: every append call leaves the backup log with exactly one more entry *)
(* than it parsed to before the call: the new entry is last and the earlier *)
(* entries are unchanged, whatever happens to the spreadsheet write.        *)
C1_AppendGrowsBackupByOne ==
    [][AppendStep =>
        /\ backup'.state = "valid"
        /\ Len(backup'.data) = Len(load_backup(backup)) + 1
        /\ backup'.data[Len(backup'.data)] = NewEntry'
        /\ SubSeq(backup'.data, 1, Len(backup'.data) - 1) = load_backup(backup)]_vars

\* an append that met a lock, on a log that already held an entry
C1_Witness ==
    /\ last.op = "append" /\ last.why = "locked" /\ ~last.ok
    /\ backup.state = "valid" /\ Len(backup.data) >= 2
    /\ backup.data[Len(backup.data)] = NewEntry

(* C2: append returns true exactly when the workbook was saved with the new *)
(* row; it returns false when the file is locked or a value cannot be       *)
(* stored, and then the saved sheet has no new data row while the backup    *)
(* log has gained the entry; it never raises.                               *)
C2_AppendResult ==
    [][AppendStep =>
        /\ ~last'.raised
        /\ last'.ok <=> /\ excel'.exists
                        /\ Len(DataRows(excel')) = Len(DataRows(excel)) + 1
                        /\ RowValues(excel'.rows[Len(excel'.rows)]) = EntryRow(NewEntry')
        /\ lock # "none" => ~last'.ok
        /\ HasUnstorable(NewEntry') => ~last'.ok
        /\ ~last'.ok => /\ DataRows(excel') = DataRows(excel)
                        /\ InBackup(NewEntry', backup')]_vars

\* an append refused at the save of a read-only workbook that holds rows
C2_Witness ==
    /\ last.op = "append" /\ ~last.ok /\ last.why = "locked"
    /\ last.preLock = "readonly" /\ excel.exists /\ Len(DataRows(excel)) >= 1
    /\ InBackup(NewEntry, backup) /\ ~InSheet(NewEntry, excel)

(* C3: while the backup file is never corrupted, every entry an append call *)
(* has recorded is in the backup log or is a data row of the saved sheet.   *)
C3_Durability ==
    ~hist.everCorrupt =>
        \A i \in 1..Len(appended) :
            InBackup(appended[i], backup) \/ InSheet(appended[i], excel)

\* the entries are all ones a workbook stores and reads back verbatim
StoredVerbatim(entry) ==
    \A c \in 1..(NCols - 1) :
        /\ Storable(row_tuple(entry)[c])
        /\ SavedValue(row_tuple(entry)[c]) = row_tuple(entry)[c]

(* C4: after appends on a fresh path, made locked or unlocked, and then one *)
(* reconcile that runs unlocked, the sheet has exactly one data row per     *)
(* append call (stated for entries the workbook stores verbatim and a       *)
(* backup file that was never corrupted).                                   *)
C4_OneRowPerAppend ==
    ( /\ hist.reconciles = 1 /\ last.op = "reconcile"
      /\ last.preLock = "none" /\ last.lockedAt = 0 /\ ~last.raised
      /\ ~hist.everCorrupt
      /\ \A i \in 1..Len(appended) : StoredVerbatim(appended[i]) )
    => Len(DataRows(excel)) = Len(appended)

(* C5 as stated: a reconcile that directly follows a reconcile, with no     *)
(* append between them, returns 0 and leaves the number of rows unchanged   *)
(* (stated for entries the workbook stores verbatim and a first call whose  *)
(* loop met no lock).                                                       *)
C5_SecondReconcileAddsNothing ==
    [][(/\ ReconcileStep /\ last.op = "reconcile" /\ last.lockedAt = 0
        /\ \A i \in 1..Len(appended) : StoredVerbatim(appended[i])) =>
        /\ ~last'.raised
        /\ last'.added = 0
        /\ Len(DataRows(excel')) = Len(DataRows(excel))]_vars

(* C5 amended: a reconcile that directly follows a reconcile which met no   *)
(* lock (at opening, inside the loop, or at saving) returns 0 without       *)
(* raising and leaves the number of rows unchanged.                         *)
C5_SecondReconcileAfterClean ==
    [][(ReconcileStep /\ MetNoLock(last)) =>
        /\ ~last'.raised
        /\ last'.added = 0
        /\ Len(DataRows(excel')) = Len(DataRows(excel))]_vars

\* a second reconcile that ran its loop over entries the first one kept
C5_Witness ==
    /\ last.op = "reconcile" /\ last.afterClean
    /\ last.ran /\ last.failed # {} /\ last.added = 0
    /\ Len(DataRows(excel)) >= 1

RECURSIVE KeepFrom(_, _, _)
\* the entries of data, from number i on, whose number is not in drop
KeepFrom(data, i, drop) ==
    IF i > Len(data) THEN <<>>
    ELSE (IF i \in drop THEN <<>> ELSE <<data[i]>>) \o KeepFrom(data, i + 1, drop)

(* C6: when reconcile returns, the backup log holds exactly the entries of  *)
(* the previous log that were neither matched to a row nor written as a row *)
(* that was saved, and every entry dropped from the log is a data row of    *)
(* the saved sheet.                                                         *)
C6_LogIsTheUnsynced ==
    [][(ReconcileStep /\ ~last'.raised) =>
        /\ load_backup(backup') =
              KeepFrom(load_backup(backup), 1, last'.matched \cup last'.written)
        /\ \A i \in 1..Len(load_backup(backup)) :
              ~InBackup(load_backup(backup)[i], backup')
                  => InSheet(load_backup(backup)[i], excel')]_vars

C8_IndexIsPosition ==
    \A k \in 1..Len(DataRows(excel)) : DataRows(excel)[k][1] = PyInt(k)

\* a sheet whose second or later row was added by reconcile
C8_Witness ==
    /\ last.op = "reconcile" /\ last.added >= 1 /\ Len(DataRows(excel)) >= 2
    /\ DataRows(excel)[Len(DataRows(excel))][1] = PyInt(Len(DataRows(excel)))

\* text s holds token tok somewhere
Contains(s, tok) ==
    \E i \in 1..Len(s) :
        i + Len(tok) - 1 <= Len(s) /\ SubSeq(s, i, i + Len(tok) - 1) = tok

RECURSIVE IsSubsequence(_, _)
\* s is t with some characters taken out
IsSubsequence(s, t) ==
    IF s = <<>> THEN TRUE
    ELSE IF t = <<>> THEN FALSE
    ELSE IF Head(s) = Head(t) THEN IsSubsequence(Tail(s), Tail(t))
    ELSE IsSubsequence(s, Tail(t))

(* C9: the cleaned text holds none of the tokens "### ", "- " and "**", and *)
(* is the input with removed characters taken out, the rest in order.       *)
C9_NoTokensLeft ==
    mdDone =>
        /\ ~Contains(mdOut, <<"#", "#", "#", " ">>)
        /\ ~Contains(mdOut, <<"-", " ">>)
        /\ ~Contains(mdOut, <<"*", "*">>)
        /\ IsSubsequence(mdOut, mdIn)

(* C10: when a lock error stops reconcile at entry i, the log written back  *)
(* ends with entry i and every later entry of the previous log, in order.   *)
C10_LockKeepsTheRest ==
    [][(ReconcileStep /\ last'.lockedAt > 0 /\ ~last'.raised) =>
        LET old == load_backup(backup)
            rest == SubSeq(old, last'.lockedAt, Len(old))
            new == load_backup(backup')
        IN  /\ Len(new) >= Len(rest)
            /\ SubSeq(new, Len(new) - Len(rest) + 1, Len(new)) = rest]_vars

\* no value of the entry is an empty string
NoEmptyText(entry) ==
    \A c \in 1..(NCols - 1) : SavedValue(row_tuple(entry)[c]) = row_tuple(entry)[c]

(* C11: when reconcile runs on a non-empty backup log while the workbook is *)
(* locked and meets the lock, at opening or creating the workbook or at     *)
(* saving the rows it wrote, it returns 0 without raising and leaves the    *)
(* backup file exactly as it was (stated for entries without an empty       *)
(* string).                                                                 *)
C11_LockedReconcileReturnsZero ==
    [][(/\ ReconcileStep /\ lock # "none" /\ load_backup(backup) # <<>>
        /\ (last'.how = "locked" \/ last'.written # {})
        /\ \A i \in 1..Len(appended) : NoEmptyText(appended[i])) =>
        /\ ~last'.raised
        /\ last'.added = 0
        /\ backup' = backup]_vars

(* C12: when the backup file is absent, holds an empty array, or holds      *)
(* invalid JSON, reconcile returns 0 without raising and neither creates    *)
(* nor modifies the workbook file; the backup file is left as it was when   *)
(* absent or empty and becomes an empty array when it held invalid JSON.    *)
C12_EarlyExitsLeaveWorkbook ==
    [][(ReconcileStep /\ (backup.state # "valid" \/ backup.data = <<>>)) =>
        /\ ~last'.raised
        /\ last'.added = 0
        /\ excel' = excel
        /\ backup.state = "corrupt" => backup' = [state |-> "valid", data |-> <<>>]
        /\ backup.state # "corrupt" => backup' = backup]_vars

\* a reconcile that found invalid JSON after a locked append: the log is an
\* empty array and the workbook file still does not exist
C12_Witness ==
    /\ last.op = "reconcile" /\ last.how = "corrupt" /\ last.added = 0
    /\ backup = [state |-> "valid", data |-> <<>>]
    /\ ~excel.exists /\ Len(appended) >= 1 /\ last.preLock = "none"

====
